---- MODULE Spec2Model ----
(***************************************************************************)
(* The real-time voice session client of the repository:                   *)
(*   - VoiceWebSocketClient (src/backend/SIA_VOICE_TO_INSIGHTS_INTEGRATION *)
(*     .md, lines 210-588): connection, reconnection, inbound dispatch,    *)
(*     microphone capture, turn-end timer and the audio playback queue;    *)
(*   - AIVoiceInterface (src/frontend/src/components/TileButton.tsx, lines *)
(*     36-165): the owner of the client, whose React state `status` is the *)
(*     session state and whose listening effect drives capture.            *)
(*                                                                         *)
(* One action is one JavaScript task (an event handler with the microtasks *)
(* it triggers).  An `await` splits a function into the tasks before and   *)
(* after it.  WebSocket objects live in slots; a slot is recycled once its *)
(* socket is CLOSED and no longer referenced by this.ws.                   *)
(***************************************************************************)
EXTENDS Integers, Sequences, FiniteSets, TLC

\* ------------------------------------------------------------------ bounds
MaxLive == 2          \* WebSocket objects alive (or reconnects pending) at once
MaxChunks == 3        \* inbound binary frames delivered in one behaviour
MaxPending == 1       \* startRecording calls suspended in getUserMedia at once
MaxConv == 2          \* captured chunks whose arrayBuffer() conversion is pending
MaxStreams == 1       \* microphone streams open at once
NumSessionIds == 2    \* distinct non-empty session_id values the backend sends
NumMessages == 2      \* distinct non-empty message texts of `error` events
NumIdentities == 2    \* distinct (businessId, userId) pairs connect() is called with

\* ------------------------------------------------------- program constants
maxReconnectAttempts == 3

Slots == 1..MaxLive
Identities == 1..NumIdentities

VARIABLES
  \* ---- VoiceWebSocketClient fields
  ws,                 \* this.ws: a slot, or 0 for null
  reconnectAttempts,  \* this.reconnectAttempts
  sessionId,          \* this.sessionId: 0 for null
  isConnected,        \* this.isConnected
  mediaRecorder,      \* this.mediaRecorder # null
  audioContext,       \* this.audioContext # null
  audioQueue,         \* this.audioQueue: chunk ids, head first
  isPlaying,          \* this.isPlaying
  turnEndTimer,       \* this.turnEndTimer: "null", "armed", or "fired" (a stale id)
  audioCallback,      \* this.config.onAudioReceived is supplied (fixed at construction)
  \* ---- runtime objects the client created
  readyState,         \* readyState of the WebSocket in each slot
  reconnectTimers,    \* setTimeout(connect) callbacks not yet run
  identity,           \* per slot, the (businessId, userId) its socket's handlers closed over; 0 for no socket
  timerIdentity,      \* per identity, the pending setTimeout(connect) callbacks that closed over it
  loops,              \* suspended playAudioQueue invocations: [chunk, phase]
  awaiting,           \* ws.onmessage calls suspended in `await playAudioQueue()` with a callback to make: [loop, first]
  startPending,       \* startRecording calls suspended in getUserMedia
  recorders,          \* MediaRecorders in state "recording" (this.mediaRecorder and orphans)
  streams,            \* microphone streams acquired and not stopped
  convPending,        \* arrayBuffer() promises of captured chunks not yet resolved
  overtaken,          \* how many of them, the oldest, belong to chunks older than one already on the wire
  flushing,           \* a stopped recorder's final dataavailable event is still to be delivered
  \* ---- AIVoiceInterface
  ui,                 \* React state: [status, isConnected]
  isListening,        \* the isListening prop
  isActiveRef,        \* isActiveRef.current
  effectDeps,         \* [isListening, isConnected, status] at the last run of the listening effect
  \* ---- the wire and the owner, as the last handler left them
  wire,               \* per slot, the outbound frames of its socket: [first, inits, stopped, late]
  sent,               \* frames the last handler put on the wire: [slot, frame]
  calls,              \* config callbacks the last handler invoked, in order: [cb, arg]
  \* ---- history
  nextChunk,          \* id the next inbound binary frame gets (arrival order)
  started,            \* chunk ids in the order source.start() was called
  dropped,            \* chunk ids dropped because decoding or starting failed
  discarded,          \* chunk ids removed from the queue by clearAudioQueue
  closures,           \* closures since the last open, saturating at maxReconnectAttempts + 1
  scheduled,          \* reconnects scheduled since the last open
  turnEnds,           \* turn_end commands sent since a chunk last reset the timer (at most 2 counted)
  stopCalls,          \* stopRecording calls the last handlers made back to back (at most 2 counted)
  lastOp,             \* the handler that ran last
  prevStatus,         \* ui.status before the last handler ran
  handshake,          \* the identity the `init` frame of the last handler carried (0: it sent none)
  retried,            \* the last handler was onopen and the one before it a reconnect timer
  replaced            \* the session id the last session_initialized found in place (0: none, or another handler)

clientVars == <<ws, reconnectAttempts, sessionId, isConnected, readyState, reconnectTimers, closures, scheduled, identity, timerIdentity>>
captureVars == <<mediaRecorder, turnEndTimer, startPending, recorders, streams, convPending, overtaken, flushing, turnEnds>>
playVars == <<audioContext, audioQueue, isPlaying, loops, nextChunk, started, dropped, discarded, audioCallback, awaiting>>
uiVars == <<ui, isListening, isActiveRef, effectDeps>>
wireVars == <<wire, sent, calls>>
histVars == <<lastOp, prevStatus, stopCalls, replaced, handshake, retried>>
vars == <<clientVars, captureVars, playVars, uiVars, wireVars, histVars>>

Range(s) == {s[i] : i \in 1..Len(s)}
Min(a, b) == IF a < b THEN a ELSE b

\* the handler op ran in this step
Did(op) ==
  /\ lastOp' = op
  /\ prevStatus' = ui.status
  /\ stopCalls' = IF op \in {"stopRecording", "disconnect"} THEN Min(stopCalls + 1, 2) ELSE 0
  /\ replaced' = IF op = "session_initialized" THEN sessionId ELSE 0
  /\ op # "onopen" => handshake' = 0
  /\ retried' = (op = "onopen" /\ lastOp = "reconnect")

Live == {c \in Slots : readyState[c] \in {"CONNECTING", "OPEN", "CLOSING"}}

\* A CLOSED WebSocket that this.ws no longer references is unreachable: its slot is free.
Recycle(rs, w) == [c \in Slots |-> IF rs[c] = "CLOSED" /\ c # w THEN "NONE" ELSE rs[c]]

\* the slot a new WebSocket takes: the lowest one holding no live socket
FreeSlot == CHOOSE c \in Slots \ Live : \A d \in Slots \ Live : c <= d

\* ---------------------------------------------------------------- the wire
\* no frame has been sent on a socket yet
NoFrames == [first |-> "none", inits |-> 0, stopped |-> FALSE, late |-> FALSE]

\* what was sent on a socket, after one more frame: the first frame, how many
\* handshakes, whether `stop` was sent and whether any frame followed it
put(w, frame) ==
  [first |-> IF w.first = "none" THEN frame ELSE w.first,
   inits |-> IF frame = "init" THEN w.inits + 1 ELSE w.inits,
   stopped |-> w.stopped \/ frame = "stop",
   late |-> w.late \/ w.stopped]

\* mutant of canSend: a socket still connecting takes the frame too
canSendConnecting(w, rs) == w # 0 /\ rs[w] \in {"CONNECTING", "OPEN"}

\* the test of sendAudio and send, lines 485 and 494
canSend(w, rs) == w # 0 /\ rs[w] = "OPEN"

\* sendAudio / send, lines 484-497: the frame goes to this.ws, or nowhere
sending(w, rs, frame) == IF canSend(w, rs) THEN <<[slot |-> w, frame |-> frame]>> ELSE <<>>

\* the wire after the frames fs were sent; a freed slot keeps nothing
Wire(wr, fs, rs) ==
  [c \in Slots |->
     IF rs[c] = "NONE" THEN NoFrames
     ELSE IF fs # <<>> /\ fs[1].slot = c THEN put(wr[c], fs[1].frame)
     ELSE wr[c]]

\* a handler that sends nothing and calls nothing back
NoOutput == sent' = <<>> /\ calls' = <<>> /\ UNCHANGED wire

\* ------------------------------------------------ AIVoiceInterface callbacks
onSessionInitialized(u) == [u EXCEPT !.isConnected = TRUE, !.status = "idle"]

onProcessing(u) == [u EXCEPT !.status = "processing"]

\* mutant of onAgentSpeaking: the status is left alone
onAgentSpeakingIgnored(u) == u

onAgentSpeaking(u) == [u EXCEPT !.status = "speaking"]

\* mutant of onAgentFinished: idle only when the session is complete
onAgentFinishedIfComplete(u, sessionComplete) ==
  IF sessionComplete THEN [u EXCEPT !.status = "idle"] ELSE u

\* mutant of onAgentFinished: 'error' is terminal
onAgentFinishedUnlessError(u, sessionComplete) ==
  IF u.status = "error" THEN u ELSE [u EXCEPT !.status = "idle"]

onAgentFinished(u, sessionComplete) == [u EXCEPT !.status = "idle"]

onInterrupted(u) == u

\* mutant of onError: the status is left alone
onErrorIgnored(u) == u

onError(u) == [u EXCEPT !.status = "error"]

\* mutant of onDisconnected: the owner shows the retry
onDisconnectedConnecting(u) == [u EXCEPT !.isConnected = FALSE, !.status = "connecting"]

onDisconnected(u) == [u EXCEPT !.isConnected = FALSE, !.status = "idle"]

\* mutant of onTimeout: a state of its own
onTimeoutDistinct(u) == [u EXCEPT !.status = "timeout"]

onTimeout(u) == [u EXCEPT !.status = "error"]

\* the catch of `await client.connect(2, 1)` in initializeVoiceClient
connectRejected(u) == [u EXCEPT !.status = "error"]

\* the .catch of client.startRecording() in the listening effect (status part)
startRecordingRejected(u) == [u EXCEPT !.status = "error"]

\* ------------------------------------------------------------- connection
\* connect(), lines 244-245: this.ws = new WebSocket(wsUrl)
connect ==
  /\ Live # Slots
  /\ ws' = FreeSlot
  /\ readyState' = Recycle([readyState EXCEPT ![FreeSlot] = "CONNECTING"], FreeSlot)
  /\ wire' = [Wire(wire, <<>>, readyState') EXCEPT ![FreeSlot] = NoFrames]
  /\ sent' = <<>>
  /\ calls' = <<>>

\* the identities the handlers of the sockets close over, after connect(id)
\* created the socket in slot c; a freed slot keeps nothing
closedOver(idn, rs, c, id) ==
  [d \in Slots |-> IF d = c THEN id ELSE IF rs[d] = "NONE" THEN 0 ELSE idn[d]]

\* the owner calls connect(businessId, userId) on the client
CallerConnect(id) ==
  /\ Cardinality(Live) + reconnectTimers < MaxLive
  /\ connect
  /\ identity' = closedOver(identity, readyState', FreeSlot, id)
  /\ Did("connect")
  /\ UNCHANGED <<reconnectAttempts, sessionId, isConnected, reconnectTimers, closures, scheduled, timerIdentity>>
  /\ UNCHANGED <<captureVars, playVars, uiVars>>

\* mutant of handshakeArguments: the handshake takes the identity of the
\* socket this.ws refers to
handshakeArgumentsOfCurrent(idn, c, w) == IF w # 0 THEN idn[w] ELSE idn[c]

\* lines 251-254: the handshake of the socket in slot c carries the arguments
\* of the connect() call that created it
handshakeArguments(idn, c, w) == idn[c]

\* the setTimeout callback of ws.onclose, lines 302-304:
\* this.connect(businessId, userId) with the arguments onclose closed over
ReconnectTimerFires(id) ==
  /\ timerIdentity[id] > 0
  /\ reconnectTimers' = reconnectTimers - 1
  /\ timerIdentity' = [timerIdentity EXCEPT ![id] = @ - 1]
  /\ connect
  /\ identity' = closedOver(identity, readyState', FreeSlot, id)
  /\ Did("reconnect")
  /\ UNCHANGED <<reconnectAttempts, sessionId, isConnected, closures, scheduled>>
  /\ UNCHANGED <<captureVars, playVars, uiVars>>

\* ws.onopen, lines 247-259: the handshake goes through this.send, that is to
\* this.ws, whichever socket has opened
onopen(c) ==
  /\ readyState[c] = "CONNECTING"
  /\ readyState' = [readyState EXCEPT ![c] = "OPEN"]
  /\ sent' = sending(ws, readyState', "init")
  /\ handshake' = IF sent' = <<>> THEN 0 ELSE handshakeArguments(identity, c, ws)
  /\ wire' = Wire(wire, sent', readyState')
  /\ calls' = <<>>
  /\ isConnected' = TRUE
  /\ reconnectAttempts' = 0
  /\ closures' = 0
  /\ scheduled' = 0
  /\ Did("onopen")
  /\ UNCHANGED <<ws, sessionId, reconnectTimers, identity, timerIdentity>>
  /\ UNCHANGED <<captureVars, playVars, uiVars>>

\* mutant of shouldReconnect: off by one
shouldReconnectOffByOne(n) == n < maxReconnectAttempts - 1

\* mutant of shouldReconnect: the counter is never consulted
shouldReconnectAlways(n) == TRUE

\* ws.onclose, line 298: is another reconnect attempt allowed?
shouldReconnect(n) == n < maxReconnectAttempts

\* mutant of onerrorCalls: a callback of its own for the transport
onerrorCallsDistinct(err) == IF err THEN <<[cb |-> "onTransportError", arg |-> 0]>> ELSE <<>>

\* ws.onerror, lines 283-285: the callback invoked, with the client's own text
\* 'Connection error occurred' (arg 0: not a text of the backend)
onerrorCalls(err) == IF err THEN <<[cb |-> "onError", arg |-> 0]>> ELSE <<>>

\* mutant of oncloseCalls: the owner is not told
oncloseCallsNone == <<>>

\* ws.onclose, lines 293-295: the callback invoked
oncloseCalls == <<[cb |-> "onDisconnected", arg |-> 0]>>

\* ws.onerror, lines 281-287: config.onError, then reject; a connect() promise
\* still pending is rejected, and the catch of initializeVoiceClient (the
\* reconnect's catch only logs) sets the status onError has just set
onerror(u, err, pending) ==
  IF ~err THEN u ELSE IF pending THEN connectRejected(onError(u)) ELSE onError(u)

\* The socket in slot c closes: the browser fires error (a failed or dropped
\* connection) and then close in one task.  ws.onclose, lines 289-306.
onclose(c, err) ==
  /\ c \in Live
  /\ readyState[c] = "CONNECTING" => err
  /\ readyState' = Recycle([readyState EXCEPT ![c] = "CLOSED"], ws)
  /\ identity' = closedOver(identity, readyState', c, IF readyState'[c] = "NONE" THEN 0 ELSE identity[c])
  /\ isConnected' = FALSE
  /\ ui' = onDisconnected(onerror(ui, err, readyState[c] = "CONNECTING"))
  /\ calls' = onerrorCalls(err) \o oncloseCalls
  /\ sent' = <<>>
  /\ wire' = Wire(wire, <<>>, readyState')
  /\ IF shouldReconnect(reconnectAttempts)
       THEN /\ reconnectAttempts' = reconnectAttempts + 1
            /\ reconnectTimers' = reconnectTimers + 1
            /\ timerIdentity' = [timerIdentity EXCEPT ![identity[c]] = @ + 1]
            /\ scheduled' = scheduled + 1
       ELSE UNCHANGED <<reconnectAttempts, reconnectTimers, scheduled, timerIdentity>>
  /\ closures' = Min(closures + 1, maxReconnectAttempts + 1)
  /\ Did("onclose")
  /\ UNCHANGED <<ws, sessionId>>
  /\ UNCHANGED <<captureVars, playVars, isListening, isActiveRef, effectDeps>>

\* -------------------------------------------------------- inbound dispatch
\* Text frames: the `type` tag with the one field the handlers test, 0 when the
\* field is absent, empty or false.  "pong" stands for every tag handleMessage
\* has no case for, "malformed" for a frame JSON.parse rejects.
Messages ==
  [type : {"session_initialized"}, arg : 0..NumSessionIds]
    \cup [type : {"transcription", "processing", "agent_speaking", "agent_finished"}, arg : 0..1]
    \cup [type : {"error"}, arg : 0..NumMessages]
    \cup [type : {"interrupted", "timeout", "heartbeat", "session_complete", "pong", "malformed"}, arg : {0}]

\* mutant of newSessionId: an id once set is kept
newSessionIdOnce(m, sid) ==
  IF m.type = "session_initialized" /\ sid = 0 THEN m.arg ELSE sid

\* handleMessage, case 'session_initialized', line 323
newSessionId(m, sid) == IF m.type = "session_initialized" THEN m.arg ELSE sid

\* mutant of dispatch: a frame with no case of its own is reported as an error
dispatchUnknownIsError(m, u) ==
  CASE m.type = "session_initialized" -> IF m.arg # 0 THEN onSessionInitialized(u) ELSE u
    [] m.type = "processing" -> IF m.arg # 0 THEN onProcessing(u) ELSE u
    [] m.type = "agent_speaking" -> IF m.arg # 0 THEN onAgentSpeaking(u) ELSE u
    [] m.type = "agent_finished" -> onAgentFinished(u, m.arg # 0)
    [] m.type = "interrupted" -> onInterrupted(u)
    [] m.type = "error" -> IF m.arg # 0 THEN onError(u) ELSE u
    [] m.type = "timeout" -> onTimeout(u)
    [] OTHER -> onError(u)

\* handleMessage, lines 321-382: the owner's callback each tag reaches
dispatch(m, u) ==
  CASE m.type = "session_initialized" -> IF m.arg # 0 THEN onSessionInitialized(u) ELSE u
    [] m.type = "processing" -> IF m.arg # 0 THEN onProcessing(u) ELSE u
    [] m.type = "agent_speaking" -> IF m.arg # 0 THEN onAgentSpeaking(u) ELSE u
    [] m.type = "agent_finished" -> onAgentFinished(u, m.arg # 0)
    [] m.type = "interrupted" -> onInterrupted(u)
    [] m.type = "error" -> IF m.arg # 0 THEN onError(u) ELSE u
    [] m.type = "timeout" -> onTimeout(u)
    [] OTHER -> u

\* handleMessage, lines 321-382: the config callback each tag invokes, with the
\* field it passes on
invoked(m) ==
  CASE m.type = "session_initialized" /\ m.arg # 0 -> <<[cb |-> "onSessionInitialized", arg |-> m.arg]>>
    [] m.type = "transcription" /\ m.arg # 0 -> <<[cb |-> "onTranscription", arg |-> m.arg]>>
    [] m.type = "processing" /\ m.arg # 0 -> <<[cb |-> "onProcessing", arg |-> m.arg]>>
    [] m.type = "agent_speaking" /\ m.arg # 0 -> <<[cb |-> "onAgentSpeaking", arg |-> m.arg]>>
    [] m.type = "agent_finished" -> <<[cb |-> "onAgentFinished", arg |-> m.arg]>>
    [] m.type = "interrupted" -> <<[cb |-> "onInterrupted", arg |-> 0]>>
    [] m.type = "error" /\ m.arg # 0 -> <<[cb |-> "onError", arg |-> m.arg]>>
    [] m.type = "timeout" -> <<[cb |-> "onTimeout", arg |-> 0]>>
    [] OTHER -> <<>>

\* handleMessage, case 'heartbeat', lines 374-377
answered(m, w, rs) == IF m.type = "heartbeat" THEN sending(w, rs, "ping") ELSE <<>>

\* ws.onmessage with a text frame, lines 270-278, and handleMessage
onmessage(c, m) ==
  /\ readyState[c] = "OPEN"
  /\ sessionId' = newSessionId(m, sessionId)
  /\ ui' = dispatch(m, ui)
  /\ calls' = invoked(m)
  /\ sent' = answered(m, ws, readyState)
  /\ wire' = Wire(wire, sent', readyState)
  /\ Did(m.type)
  /\ UNCHANGED <<ws, reconnectAttempts, isConnected, readyState, reconnectTimers, closures, scheduled, identity, timerIdentity>>
  /\ UNCHANGED <<captureVars, playVars, isListening, isActiveRef, effectDeps>>

\* ---------------------------------------------------------------- playback
\* mutant of loopPass: the loop takes the newest chunk (pop) instead of the oldest
loopPassNewestFirst(q, ctx) ==
  IF q = <<>> THEN [chunk |-> 0, queue |-> q, drop |-> {}]
  ELSE IF ctx THEN [chunk |-> q[Len(q)], queue |-> SubSeq(q, 1, Len(q) - 1), drop |-> {}]
  ELSE [chunk |-> 0, queue |-> <<>>, drop |-> Range(q)]

\* One pass of the while loop of playAudioQueue (lines 514-534) from its top to
\* the next await: the chunk it suspends on (0: the loop has ended), the queue
\* it leaves, and the chunks it dropped on the way.  Without an AudioContext
\* (closed by disconnect) decodeAudioData throws for every chunk left.
loopPass(q, ctx) ==
  IF q = <<>> THEN [chunk |-> 0, queue |-> q, drop |-> {}]
  ELSE IF ctx THEN [chunk |-> Head(q), queue |-> Tail(q), drop |-> {}]
  ELSE [chunk |-> 0, queue |-> <<>>, drop |-> Range(q)]

\* ws.onmessage, lines 266-269, for the call whose playAudioQueue was suspended
\* on chunk `from`: it stays suspended while the loop moves on to chunk `to`
\* and resumes when the loop has ended (to = 0)
resumed(aw, from, to) ==
  {IF a.loop = from THEN [a EXCEPT !.loop = to] ELSE a : a \in aw} \ {a \in aw : a.loop = from /\ to = 0}

\* ws.onmessage, lines 267-269, resuming after the loop suspended on chunk
\* `from` has ended: onAudioReceived with the data of the frame it was called for
audioReceived(aw, from) ==
  IF \E a \in aw : a.loop = from
    THEN <<[cb |-> "onAudioReceived", arg |-> (CHOOSE a \in aw : a.loop = from).first]>>
    ELSE <<>>

\* mutant of loopContinues: the catch sits outside the while loop, so the loop
\* ends when a chunk fails (and goes round as before when one ends)
loopStopsOnFailure(l, drop) ==
  LET r == IF drop = {} THEN loopPass(audioQueue, audioContext)
           ELSE [chunk |-> 0, queue |-> audioQueue, drop |-> {}] IN
  /\ audioQueue' = r.queue
  /\ dropped' = dropped \cup drop \cup r.drop
  /\ loops' = (loops \ {l}) \cup (IF r.chunk = 0 THEN {} ELSE {[chunk |-> r.chunk, phase |-> "decoding"]})
  /\ isPlaying' = IF r.chunk = 0 THEN FALSE ELSE isPlaying
  /\ awaiting' = resumed(awaiting, l.chunk, r.chunk)
  /\ calls' = IF r.chunk = 0 THEN audioReceived(awaiting, l.chunk) ELSE <<>>

\* the loop that was suspended as l goes round: lines 514-537
loopContinues(l, drop) ==
  LET r == loopPass(audioQueue, audioContext) IN
  /\ audioQueue' = r.queue
  /\ dropped' = dropped \cup drop \cup r.drop
  /\ loops' = (loops \ {l}) \cup (IF r.chunk = 0 THEN {} ELSE {[chunk |-> r.chunk, phase |-> "decoding"]})
  /\ isPlaying' = IF r.chunk = 0 THEN FALSE ELSE isPlaying
  /\ awaiting' = resumed(awaiting, l.chunk, r.chunk)
  /\ calls' = IF r.chunk = 0 THEN audioReceived(awaiting, l.chunk) ELSE <<>>

\* playAudioQueue, line 503: the call returns at once
playbackBusy(playing, q) == playing \/ q = <<>>

\* ws.onmessage with a binary frame, lines 262-269: push, then playAudioQueue
\* up to its first await (lines 503-520)
onaudio(c) ==
  /\ readyState[c] = "OPEN"
  /\ nextChunk <= MaxChunks
  /\ nextChunk' = nextChunk + 1
  /\ LET q == Append(audioQueue, nextChunk) IN
       IF playbackBusy(isPlaying, q)
         THEN /\ audioQueue' = q
              /\ calls' = IF audioCallback THEN <<[cb |-> "onAudioReceived", arg |-> nextChunk]>> ELSE <<>>
              /\ UNCHANGED <<audioContext, isPlaying, loops, dropped, awaiting>>
         ELSE LET r == loopPass(q, TRUE) IN
              /\ audioContext' = TRUE
              /\ audioQueue' = r.queue
              /\ isPlaying' = TRUE
              /\ loops' = loops \cup {[chunk |-> r.chunk, phase |-> "decoding"]}
              /\ awaiting' = IF audioCallback
                               THEN awaiting \cup {[loop |-> r.chunk, first |-> nextChunk]}
                               ELSE awaiting
              /\ calls' = <<>>
              /\ UNCHANGED dropped
  /\ Did("binary")
  /\ sent' = <<>>
  /\ UNCHANGED <<started, discarded, audioCallback, wire>>
  /\ UNCHANGED <<clientVars, captureVars, uiVars>>

\* decodeAudioData settles for the loop suspended as l, lines 520-529: decoded
\* (and an AudioContext to create the source on) starts the chunk, otherwise it
\* is dropped (line 532) and the loop goes round
decoded(l, ok) ==
  /\ l \in loops /\ l.phase = "decoding"
  /\ IF ok /\ audioContext
       THEN /\ loops' = (loops \ {l}) \cup {[chunk |-> l.chunk, phase |-> "playing"]}
            /\ started' = Append(started, l.chunk)
            /\ calls' = <<>>
            /\ UNCHANGED <<audioQueue, isPlaying, dropped, awaiting>>
       ELSE /\ loopContinues(l, {l.chunk})
            /\ UNCHANGED started
  /\ Did("decoded")
  /\ sent' = <<>>
  /\ UNCHANGED <<audioContext, nextChunk, discarded, audioCallback, wire>>
  /\ UNCHANGED <<clientVars, captureVars, uiVars>>

\* source.onended for the loop suspended as l, line 527
onended(l) ==
  /\ l \in loops /\ l.phase = "playing"
  /\ loopContinues(l, {})
  /\ Did("onended")
  /\ sent' = <<>>
  /\ UNCHANGED <<audioContext, nextChunk, started, discarded, audioCallback, wire>>
  /\ UNCHANGED <<clientVars, captureVars, uiVars>>

\* mutant of clearedQueue: the queue is left as it is
clearedQueueKept(q) == q

\* clearAudioQueue, line 544
clearedQueue(q) == <<>>

\* clearAudioQueue, lines 543-546
clearAudioQueue ==
  /\ audioQueue' = clearedQueue(audioQueue)
  /\ isPlaying' = FALSE
  /\ discarded' = discarded \cup Range(audioQueue)

\* the owner calls clearAudioQueue()
CallerClear ==
  /\ clearAudioQueue
  /\ Did("clear")
  /\ NoOutput
  /\ UNCHANGED <<audioContext, loops, nextChunk, started, dropped, audioCallback, awaiting>>
  /\ UNCHANGED <<clientVars, captureVars, uiVars>>

\* ----------------------------------------------------------------- capture
\* mutant of stopRecording: the test of line 470 is missing
stopRecordingUnguarded ==
  /\ turnEndTimer' = "null"
  /\ mediaRecorder' = FALSE
  /\ recorders' = recorders - 1
  /\ streams' = streams - 1
  /\ flushing' = TRUE
  /\ UNCHANGED turnEnds

\* stopRecording, lines 464-479; stop() queues the recorder's final dataavailable
stopRecording ==
  /\ turnEndTimer' = "null"
  /\ IF mediaRecorder
       THEN /\ mediaRecorder' = FALSE
            /\ recorders' = recorders - 1
            /\ streams' = streams - 1
            /\ flushing' = TRUE
       ELSE UNCHANGED <<mediaRecorder, recorders, streams, flushing>>
  /\ UNCHANGED turnEnds

\* startRecording's catch, lines 435-440 (config.onError, rethrow), and then the
\* .catch of the listening effect, TileButton.tsx lines 140-155
captureFailed(u) == startRecordingRejected(onError(u))

\* startRecording's catch, lines 437-439: the callback invoked, with the
\* client's own text 'Failed to access microphone'
captureFailedCalls == <<[cb |-> "onError", arg |-> 0]>>

\* getUserMedia settles for a suspended startRecording, lines 397-433.  "ok":
\* a recorder is created and started; "unsupported": the stream was acquired
\* but isTypeSupported is false; "denied": getUserMedia rejected.
getUserMediaSettles(outcome) ==
  /\ startPending > 0
  /\ startPending' = startPending - 1
  /\ outcome # "denied" => streams < MaxStreams
  /\ outcome = "ok" => ~flushing
  /\ streams' = IF outcome = "denied" THEN streams ELSE streams + 1
  /\ IF outcome = "ok"
       THEN /\ mediaRecorder' = TRUE
            /\ recorders' = recorders + 1
            /\ UNCHANGED <<ui, isActiveRef>>
       ELSE /\ ui' = captureFailed(ui)
            /\ isActiveRef' = FALSE
            /\ UNCHANGED <<mediaRecorder, recorders>>
  /\ calls' = IF outcome = "ok" THEN <<>> ELSE captureFailedCalls
  /\ sent' = <<>>
  /\ Did("getUserMedia")
  /\ UNCHANGED <<turnEndTimer, convPending, overtaken, flushing, turnEnds, isListening, effectDeps, wire>>
  /\ UNCHANGED <<clientVars, playVars>>

\* mediaRecorder.ondataavailable, lines 419-429, for a chunk a running recorder
\* produced (final = FALSE) or the last chunk of a stopped one (final = TRUE);
\* an empty chunk, or one produced while not connected, is ignored
ondataavailable(final, nonEmpty) ==
  /\ IF final THEN flushing ELSE recorders > 0 /\ nonEmpty /\ isConnected
  /\ flushing' = IF final THEN FALSE ELSE flushing
  /\ IF nonEmpty /\ isConnected
       THEN convPending < MaxConv /\ convPending' = convPending + 1
       ELSE UNCHANGED convPending
  /\ Did("dataavailable")
  /\ NoOutput
  /\ UNCHANGED <<mediaRecorder, turnEndTimer, startPending, recorders, streams, overtaken, turnEnds>>
  /\ UNCHANGED <<clientVars, playVars, uiVars>>

\* the oldest pending conversions that a chunk newer than them has overtaken on
\* the wire, after the pos-th oldest of them resolved (onWire: its chunk was sent)
overtakenAfter(n, pos, onWire) ==
  IF pos <= n THEN n - 1 ELSE IF onWire THEN pos - 1 ELSE n

\* event.data.arrayBuffer().then, lines 422-427: sendAudio, resetTurnEndTimer
\* (lines 447-459).  Each chunk's arrayBuffer() is a promise of its own and
\* nothing chains them: any pending one, the pos-th oldest, may resolve next.
bufferReady(pos) ==
  /\ pos \in 1..convPending
  /\ convPending' = convPending - 1
  /\ sent' = sending(ws, readyState, "audio")
  /\ overtaken' = overtakenAfter(overtaken, pos, sent' # <<>>)
  /\ wire' = Wire(wire, sent', readyState)
  /\ calls' = <<>>
  /\ turnEndTimer' = "armed"
  /\ turnEnds' = 0
  /\ Did("bufferReady")
  /\ UNCHANGED <<mediaRecorder, startPending, recorders, streams, flushing>>
  /\ UNCHANGED <<clientVars, playVars, uiVars>>

\* mutant of timerAfterFiring: the timer is periodic (setInterval)
timerAfterFiringRearmed == "armed"

\* resetTurnEndTimer, line 453: setTimeout is one-shot; once it has run,
\* this.turnEndTimer holds a stale id
timerAfterFiring == "fired"

\* the setTimeout callback of resetTurnEndTimer, lines 453-458
turnEndTimerFires ==
  /\ turnEndTimer = "armed"
  /\ turnEndTimer' = timerAfterFiring
  /\ sent' = IF isConnected THEN sending(ws, readyState, "turn_end") ELSE <<>>
  /\ wire' = Wire(wire, sent', readyState)
  /\ calls' = <<>>
  /\ turnEnds' = Min(turnEnds + Len(sent'), 2)
  /\ Did("turnEnd")
  /\ UNCHANGED <<mediaRecorder, startPending, recorders, streams, convPending, overtaken, flushing>>
  /\ UNCHANGED <<clientVars, playVars, uiVars>>

\* ------------------------------------------------------- AIVoiceInterface
\* the dependency list of the listening effect, TileButton.tsx line 165
deps == <<isListening, ui.isConnected, ui.status>>

\* HomeScreen's onClick: setIsListening(!isListening)
toggleListening ==
  /\ ~isListening => startPending < MaxPending
  /\ isListening' = ~isListening
  /\ Did("toggle")
  /\ NoOutput
  /\ UNCHANGED <<ui, isActiveRef, effectDeps>>
  /\ UNCHANGED <<clientVars, captureVars, playVars>>

\* mutant of stoppedListening: the stop always ends in 'idle'
stoppedListeningAlwaysIdle(u) == [u EXCEPT !.status = "idle"]

\* the listening effect after stopRecording, TileButton.tsx lines 161-163
stoppedListening(u) == IF u.status = "listening" THEN [u EXCEPT !.status = "idle"] ELSE u

\* mutant of mayStart: no start while the agent speaks
mayStartUnlessSpeaking(u, listening, active) ==
  u.isConnected /\ listening /\ ~active /\ u.status # "speaking"

\* the listening effect's tests before it starts capture, TileButton.tsx lines
\* 130 and 132: connected, listening wanted, not started yet; the status is
\* not consulted
mayStart(u, listening, active) == u.isConnected /\ listening /\ ~active

\* The listening effect, TileButton.tsx lines 128-165, run by React after a
\* render in which a dependency changed.  available: navigator.mediaDevices
\* exists (startRecording, line 391); if not, startRecording fails at once.
listeningEffect(available) ==
  /\ effectDeps # deps
  /\ effectDeps' = deps
  /\ IF mayStart(ui, isListening, isActiveRef)
       THEN /\ IF available
                 THEN /\ ui' = [ui EXCEPT !.status = "listening"]
                      /\ isActiveRef' = TRUE
                      /\ startPending' = startPending + 1
                 ELSE /\ ui' = captureFailed([ui EXCEPT !.status = "listening"])
                      /\ isActiveRef' = FALSE
                      /\ UNCHANGED startPending
            /\ calls' = IF available THEN <<>> ELSE captureFailedCalls
            /\ UNCHANGED <<mediaRecorder, turnEndTimer, recorders, streams, flushing, turnEnds>>
            /\ Did("startRecording")
       ELSE IF ui.isConnected /\ ~isListening /\ isActiveRef
         THEN /\ stopRecording
              /\ isActiveRef' = FALSE
              /\ ui' = stoppedListening(ui)
              /\ calls' = <<>>
              /\ UNCHANGED startPending
              /\ Did("stopRecording")
         ELSE /\ calls' = <<>>
              /\ UNCHANGED <<ui, isActiveRef, mediaRecorder, turnEndTimer, startPending, recorders, streams, flushing, turnEnds>>
              /\ Did("effect")
  /\ sent' = <<>>
  /\ UNCHANGED <<convPending, overtaken, isListening, wire>>
  /\ UNCHANGED <<clientVars, playVars>>

\* -------------------------------------------------------------- disconnect
\* ws.close(), line 567
closing(rs, w) ==
  [c \in Slots |-> IF c = w /\ rs[c] \in {"CONNECTING", "OPEN"} THEN "CLOSING" ELSE rs[c]]

\* mutant of teardown: the socket is closed before `stop` is sent
teardownCloseFirst(w, rs) ==
  [sent |-> sending(w, closing(rs, w), "stop"), readyState |-> closing(rs, w)]

\* disconnect, lines 565-569: send `stop`, then close the socket
teardown(w, rs) ==
  [sent |-> sending(w, rs, "stop"), readyState |-> closing(rs, w)]

\* disconnect(), lines 551-573, called by the owner
disconnect ==
  /\ stopRecording
  /\ clearAudioQueue
  /\ audioContext' = FALSE
  /\ readyState' = Recycle(teardown(ws, readyState).readyState, 0)
  /\ identity' = [c \in Slots |-> IF readyState'[c] = "NONE" THEN 0 ELSE identity[c]]
  /\ sent' = teardown(ws, readyState).sent
  /\ wire' = Wire(wire, sent', readyState')
  /\ calls' = <<>>
  /\ ws' = 0
  /\ isConnected' = FALSE
  /\ sessionId' = 0
  /\ Did("disconnect")
  /\ UNCHANGED <<reconnectAttempts, reconnectTimers, closures, scheduled, timerIdentity, startPending, convPending, overtaken>>
  /\ UNCHANGED <<loops, nextChunk, started, dropped, audioCallback, awaiting, uiVars>>

\* ------------------------------------------------------------------- Init
\* AIVoiceInterface has mounted: initializeVoiceClient (TileButton.tsx lines
\* 48-108) has set the status 'connecting', built the client and is suspended in
\* `await client.connect(2, 1)`.
Mounted ==
  /\ ws = 1
  /\ readyState = [c \in Slots |-> IF c = 1 THEN "CONNECTING" ELSE "NONE"]
  /\ reconnectAttempts = 0
  /\ sessionId = 0
  /\ isConnected = FALSE
  /\ reconnectTimers = 0
  /\ identity = [c \in Slots |-> IF c = 1 THEN 1 ELSE 0]
  /\ timerIdentity = [id \in Identities |-> 0]
  /\ handshake = 0
  /\ retried = FALSE
  /\ closures = 0
  /\ scheduled = 0
  /\ mediaRecorder = FALSE
  /\ turnEndTimer = "null"
  /\ startPending = 0
  /\ recorders = 0
  /\ streams = 0
  /\ convPending = 0
  /\ overtaken = 0
  /\ flushing = FALSE
  /\ audioContext = FALSE
  /\ audioQueue = <<>>
  /\ isPlaying = FALSE
  /\ loops = {}
  /\ nextChunk = 1
  /\ started = <<>>
  /\ dropped = {}
  /\ discarded = {}
  /\ wire = [c \in Slots |-> NoFrames]
  /\ sent = <<>>
  /\ calls = <<>>
  /\ turnEnds = 0
  /\ stopCalls = 0
  /\ ui = [status |-> "connecting", isConnected |-> FALSE]
  /\ isListening = FALSE
  /\ isActiveRef = FALSE
  /\ effectDeps = <<FALSE, FALSE, "idle">>
  /\ lastOp = "init"
  /\ prevStatus = "idle"
  /\ replaced = 0
  /\ awaiting = {}

\* the client as AIVoiceInterface configures it: no onAudioReceived among the
\* callbacks (TileButton.tsx lines 54-102)
Init == Mounted /\ audioCallback = FALSE

\* the client of an owner that supplies the optional onAudioReceived
\* (VoiceClientConfig, line 203)
InitWithAudioCallback == Mounted /\ audioCallback = TRUE

\* the transport: sockets open, fail, close; reconnect timers run
Transport ==
  \/ \E c \in Slots : onopen(c)
  \/ \E c \in Slots, err \in BOOLEAN : onclose(c, err)
  \/ \E id \in Identities : ReconnectTimerFires(id)

\* text frames from the backend
Events == \E c \in Slots, m \in Messages : onmessage(c, m)

\* binary frames from the backend and the playback loop
Playback ==
  \/ \E c \in Slots : onaudio(c)
  \/ \E l \in loops, ok \in BOOLEAN : decoded(l, ok)
  \/ \E l \in loops : onended(l)

\* the microphone
Capture ==
  \/ \E outcome \in {"ok", "unsupported", "denied"} : getUserMediaSettles(outcome)
  \/ \E final \in BOOLEAN, nonEmpty \in BOOLEAN : ondataavailable(final, nonEmpty)
  \/ \E pos \in 1..MaxConv : bufferReady(pos)
  \/ turnEndTimerFires

\* the user and React
Interface ==
  \/ toggleListening
  \/ \E available \in BOOLEAN : listeningEffect(available)

Next ==
  \/ Transport
  \/ Events
  \/ Playback
  \/ Capture
  \/ Interface
  \/ \E id \in Identities : CallerConnect(id)
  \/ CallerClear
  \/ disconnect

Spec == Init /\ [][Next]_vars

(***************************************************************************)
(* The components read and write disjoint parts of the state, and          *)
(* information flows one way: the transport writes the connection fields   *)
(* and calls the interface's callbacks; playback reads of the connection   *)
(* only that a socket is OPEN; capture and the interface never write a     *)
(* connection or playback field.  Each property is checked under the       *)
(* specification that holds every action writing the fields it reads.      *)
(***************************************************************************)
\* getUserMedia settling: capture starts or fails
Start == \E outcome \in {"ok", "unsupported", "denied"} : getUserMediaSettles(outcome)

\* inbound audio with neither clearAudioQueue nor disconnect
NextStream == Transport \/ Playback
SpecStream == Init /\ [][NextStream]_vars

\* the playback queue under every operation that touches it
NextPlayback == Transport \/ Playback \/ CallerClear \/ disconnect
SpecPlayback == Init /\ [][NextPlayback]_vars

\* the playback queue when every decodeAudioData settles and every started
\* source ends: the browser runs the continuation of a settled promise
PlaybackProgress ==
  /\ WF_vars(\E l \in loops, ok \in BOOLEAN : decoded(l, ok))
  /\ WF_vars(\E l \in loops : onended(l))
SpecPlaybackFair == SpecPlayback /\ PlaybackProgress

\* connection and reconnection, with connect() and disconnect() called at will
\* (connect always with the arguments AIVoiceInterface passes, TileButton.tsx
\* line 107, which are the defaults of line 232 too)
NextReconnect == Transport \/ Events \/ CallerConnect(1) \/ disconnect
SpecReconnect == Init /\ [][NextReconnect]_vars

\* the backend's greeting, the one event capture depends on (the listening
\* effect waits for the owner's isConnected)
Greeting ==
  \E c \in Slots, id \in 1..NumSessionIds :
    onmessage(c, [type |-> "session_initialized", arg |-> id])

\* microphone capture and the turn-end timer, driven by the listening effect
NextCapture == Transport \/ Greeting \/ Capture \/ Interface \/ disconnect
SpecCapture == Init /\ [][NextCapture]_vars

\* the session state: events, the listening effect and the start of capture
NextSession == Transport \/ Events \/ Interface \/ Start \/ disconnect
SpecSession == Init /\ [][NextSession]_vars

\* the events of one connection: the socket of Init opens and is never closed
NextDispatch == (\E c \in Slots : onopen(c)) \/ Events
SpecDispatch == Init /\ [][NextDispatch]_vars

\* everything the backend sends on one connection, text and audio, to an owner
\* that listens for both
NextDelivery == (\E c \in Slots : onopen(c)) \/ Events \/ Playback
SpecDelivery == InitWithAudioCallback /\ [][NextDelivery]_vars

\* capture on one connection that is never closed: every chunk goes to the
\* same socket
NextUpload == (\E c \in Slots : onopen(c)) \/ Greeting \/ Capture \/ Interface
SpecUpload == Init /\ [][NextUpload]_vars

\* connection and reconnection with connect() called for different identities
NextIdentity == Transport \/ (\E id \in Identities : CallerConnect(id)) \/ disconnect
SpecIdentity == Init /\ [][NextIdentity]_vars

\* ================================================================== claims
LoopChunks == {l.chunk : l \in loops}
Playing == {l \in loops : l.phase = "playing"}
Increasing(q) == \A i, j \in 1..Len(q) : i < j => q[i] < q[j]

\* C1: with neither clearAudioQueue nor disconnect, chunks are started in the
\* order they were enqueued (ids are arrival order), none is passed over, and
\* there is never more than one loop, hence never more than one chunk in
\* flight or playing: a chunk starts only after the previous one has ended.
C1_PlaysInOrderWithoutOverlap ==
  /\ Increasing(started)
  /\ Increasing(audioQueue)
  /\ Cardinality(loops) <= 1
  /\ Cardinality(Playing) <= 1
  /\ \A l \in loops :
       /\ \A i \in 1..Len(started) : started[i] <= l.chunk
       /\ \A d \in dropped : d < l.chunk
       /\ \A k \in 1..Len(audioQueue) : l.chunk < audioQueue[k]
       /\ l.phase = "playing" <=> l.chunk \in Range(started)
  /\ \A c \in 1..(nextChunk - 1) :
       c \in Range(started) \cup dropped \cup LoopChunks \cup Range(audioQueue)

\* C1 witness: chunks 1 and 2 were started in order, 2 is playing, 3 waits
C1_Witness ==
  /\ started = <<1, 2>>
  /\ loops = {[chunk |-> 2, phase |-> "playing"]}
  /\ audioQueue = <<3>>

\* C2: at most one playback loop is active at any time
C2_SinglePlaybackLoop == Cardinality(loops) <= 1

\* C3: right after clearAudioQueue() returns, no chunk is playing and no
\* playback-completion callback is pending
C3_ClearHaltsPlayback == lastOp = "clear" => Playing = {}

\* C4: clearAudioQueue (alone or within disconnect) leaves the queue empty, and
\* a chunk it removed from the queue is never dequeued, decoded or started
C4_ClearedChunksNeverPlayed ==
  /\ lastOp \in {"clear", "disconnect"} => audioQueue = <<>>
  /\ \A c \in discarded :
       c \notin Range(started) \cup LoopChunks \cup Range(audioQueue) \cup dropped

\* C4 witness: clear ran while the loop was suspended on a playing chunk and
\* removed a pending chunk, and a chunk that arrived later has been started
C4_Witness ==
  /\ 2 \in discarded
  /\ started = <<1, 3>>

\* a step in which the loop suspended as l has its chunk fail to decode or start
ChunkFails(l) == (\E ok \in BOOLEAN : decoded(l, ok)) /\ l.chunk \in dropped'

\* C5: when a dequeued chunk fails to decode or start, it is dropped and the
\* loop goes on with the chunk at the head of the queue (which leaves the
\* queue); it ends only if no chunk is queued.  Without an AudioContext the
\* queued chunks fail in turn and are dropped too; none stays behind.
C5_FailedChunkDroppedLoopContinues ==
  [][\A l \in loops : ChunkFails(l) =>
       /\ l.chunk \notin LoopChunks'
       /\ IF audioQueue = <<>> THEN loops' = loops \ {l}
          ELSE IF audioContext
            THEN /\ [chunk |-> Head(audioQueue), phase |-> "decoding"] \in loops'
                 /\ audioQueue' = Tail(audioQueue)
            ELSE Range(audioQueue) \subseteq dropped' /\ audioQueue' = <<>>]_vars

\* C5 witness: chunk 1 failed and the loop went on to decode and start chunk 2
\* while chunk 3 waits
C5_Witness ==
  /\ dropped = {1}
  /\ started = <<2>>
  /\ audioQueue = <<3>>

\* C6: the reconnect counter never exceeds the bound, and up to the bound
\* every closure since the last open has scheduled exactly one reconnect
C6_OneReconnectPerClosureUpToBound ==
  /\ reconnectAttempts <= maxReconnectAttempts
  /\ closures <= maxReconnectAttempts => scheduled = closures

\* C6 witness: as many consecutive closures as the bound, as many reconnects
C6_Witness ==
  /\ closures = maxReconnectAttempts
  /\ scheduled = maxReconnectAttempts
  /\ lastOp = "onclose"

\* the closures since the last open exceed the bound
Exhausted == closures > maxReconnectAttempts

\* C7 as claimed: the closure that exceeds the bound leaves the session state
\* 'error' and schedules no reconnect
C7_ExhaustedIsError ==
  (lastOp = "onclose" /\ Exhausted) => (ui.status = "error" /\ scheduled = maxReconnectAttempts)

\* C7 amended: the closure that exceeds the bound schedules no reconnect and
\* leaves the session state 'idle' (the close notification sets it), and once no
\* socket is alive and no reconnect is pending only connect() opens a new one
C7_ExhaustedIsIdleNoReconnect ==
  /\ [](Exhausted => scheduled = maxReconnectAttempts)
  /\ []((lastOp = "onclose" /\ Exhausted) => ui.status = "idle")
  /\ [][(Exhausted /\ Live = {} /\ reconnectTimers = 0 /\ Live' # {}) => lastOp' = "connect"]_vars

\* C7 witness: the bound is exceeded, nothing is alive or pending
C7_Witness ==
  /\ lastOp = "onclose"
  /\ Exhausted
  /\ Live = {}
  /\ reconnectTimers = 0
  /\ ui.status = "idle"

\* C8 as claimed: agent_speaking (here with a text, as in the scenario)
\* received while capture runs stops the recorder and sets the session state
\* 'speaking'
C8_AgentSpeakingStopsCapture ==
  [][(lastOp' = "agent_speaking" /\ mediaRecorder) =>
       \A c \in Slots :
         onmessage(c, [type |-> "agent_speaking", arg |-> 1]) =>
           (~mediaRecorder' /\ recorders' = 0 /\ ui'.status = "speaking")]_vars

\* C8 amended: agent_speaking with a non-empty text sets the session state
\* 'speaking' and leaves capture as it is: a running recorder keeps running
C8_AgentSpeakingSetsSpeakingOnly ==
  [][lastOp' = "agent_speaking" =>
       \A c \in Slots :
         onmessage(c, [type |-> "agent_speaking", arg |-> 1]) =>
           (ui'.status = "speaking" /\ UNCHANGED captureVars)]_vars

\* C8 witness: agent_speaking arrived while listening with the recorder running
C8_Witness ==
  /\ lastOp = "agent_speaking"
  /\ prevStatus = "listening"
  /\ ui.status = "speaking"
  /\ mediaRecorder /\ recorders = 1

\* C9: agent_finished received in 'processing' or 'speaking' sets the session
\* state 'idle', whatever session_complete is
C9_AgentFinishedReturnsToIdle ==
  [][(lastOp' = "agent_finished" /\ ui.status \in {"processing", "speaking"}) =>
       \A c \in Slots, sessionComplete \in 0..1 :
         onmessage(c, [type |-> "agent_finished", arg |-> sessionComplete]) =>
           ui'.status = "idle"]_vars

\* C9 witness: agent_finished arrived while speaking
C9_Witness ==
  /\ lastOp = "agent_finished"
  /\ prevStatus = "speaking"
  /\ ui.status = "idle"

\* C10: session_initialized with a session_id, received on an open channel,
\* leaves the session state 'idle' (connected) and session_id the received id
C10_SessionInitialized ==
  [][lastOp' = "session_initialized" =>
       \A c \in Slots, id \in 1..NumSessionIds :
         onmessage(c, [type |-> "session_initialized", arg |-> id]) =>
           (sessionId' = id /\ ui'.status = "idle" /\ ui'.isConnected)]_vars

\* C10 witness: the first session_initialized after connect() opened the channel
C10_Witness ==
  /\ lastOp = "session_initialized"
  /\ prevStatus = "connecting"
  /\ sessionId = 2
  /\ ui = [status |-> "idle", isConnected |-> TRUE]
  /\ readyState[ws] = "OPEN"

\* C11 as claimed: every `error` event, whatever its message, sets the session
\* state 'error' and invokes the error callback once with the event's message
C11_ErrorEventSetsError ==
  [][lastOp' = "error" =>
       \A c \in Slots, msg \in 0..NumMessages :
         onmessage(c, [type |-> "error", arg |-> msg]) =>
           (ui'.status = "error" /\ calls' = <<[cb |-> "onError", arg |-> msg]>>)]_vars

\* C11 amended: an `error` event with a non-empty message sets the session
\* state 'error' and invokes the error callback exactly once, with that
\* message; one without a message invokes nothing and leaves the state alone
C11_ErrorEventWithMessageSetsError ==
  [][lastOp' = "error" =>
       /\ \A c \in Slots, msg \in 1..NumMessages :
            onmessage(c, [type |-> "error", arg |-> msg]) =>
              (ui'.status = "error" /\ calls' = <<[cb |-> "onError", arg |-> msg]>>)
       /\ \A c \in Slots :
            onmessage(c, [type |-> "error", arg |-> 0]) => (ui' = ui /\ calls' = <<>>)]_vars

\* C11 witness: an `error` event with the second message arrived while the
\* backend was processing
C11_Witness ==
  /\ lastOp = "error"
  /\ prevStatus = "processing"
  /\ ui.status = "error"
  /\ calls = <<[cb |-> "onError", arg |-> 2]>>

\* C12 as claimed: a `timeout` event sets the session state 'timeout', a state
\* other than 'error', and invokes the timeout callback and not the error one
C12_TimeoutIsItsOwnState ==
  [][lastOp' = "timeout" =>
       \A c \in Slots :
         onmessage(c, [type |-> "timeout", arg |-> 0]) =>
           (ui'.status = "timeout" /\ calls' = <<[cb |-> "onTimeout", arg |-> 0]>>)]_vars

\* C12 amended: a `timeout` event invokes the timeout callback, and not the
\* error callback, and the owner sets the session state 'error': the state is
\* the one an error leaves
C12_TimeoutSetsError ==
  [][lastOp' = "timeout" =>
       \A c \in Slots :
         onmessage(c, [type |-> "timeout", arg |-> 0]) =>
           (ui'.status = "error" /\ calls' = <<[cb |-> "onTimeout", arg |-> 0]>>)]_vars

\* C12 witness: a `timeout` event arrived while the session was idle and
\* connected
C12_Witness ==
  /\ lastOp = "timeout"
  /\ prevStatus = "idle"
  /\ ui = [status |-> "error", isConnected |-> TRUE]
  /\ calls = <<[cb |-> "onTimeout", arg |-> 0]>>

\* the client is capturing and, as far as it can tell, on an open channel
CapturingOnOpenChannel == mediaRecorder /\ isConnected /\ canSend(ws, readyState)

\* C13 as claimed: while capturing on an open channel, every silent period (no
\* chunk in flight) for which no turn_end has been sent yet has the timer armed
\* that will send it, also when no chunk has been produced since the start
C13_EverySilenceEndsTheTurn ==
  (CapturingOnOpenChannel /\ convPending = 0 /\ turnEnds = 0) => turnEndTimer = "armed"

\* C13 amended: the timer is armed by a chunk handed to the transport and by
\* nothing else, startRecording included; when it elapses while capturing on
\* an open channel one turn_end is sent and the timer is not re-armed, so a
\* silent period that follows a chunk gets exactly one turn_end
C13_OneTurnEndPerSilenceAfterAChunk ==
  /\ [](turnEnds <= 1)
  /\ [][lastOp' = "bufferReady" => (turnEndTimer' = "armed" /\ turnEnds' = 0)]_vars
  /\ [][lastOp' # "bufferReady" => (turnEndTimer' = "armed" => turnEndTimer = "armed")]_vars
  /\ [][lastOp' = "getUserMedia" => (UNCHANGED <<turnEndTimer, turnEnds>> /\ sent' = <<>>)]_vars
  /\ [][(lastOp' = "turnEnd" /\ CapturingOnOpenChannel) =>
          /\ sent' = <<[slot |-> ws, frame |-> "turn_end"]>>
          /\ turnEnds' = 1
          /\ turnEndTimer' # "armed"]_vars

\* C13 witness: the timer a chunk had armed elapsed while capturing on an open
\* channel, and the one turn_end of this silence has been sent
C13_Witness ==
  /\ lastOp = "turnEnd"
  /\ CapturingOnOpenChannel
  /\ sent = <<[slot |-> ws, frame |-> "turn_end"]>>
  /\ turnEnds = 1
  /\ turnEndTimer = "fired"

\* C14: a stopRecording call (by the listening effect or within disconnect)
\* invokes no callback and leaves no recorder and no armed timer; made when
\* not capturing, or right after another, it changes nothing of the capture
\* state; the call of the listening effect leaves the connection and the
\* playback queue alone
C14_StopRecordingIdempotent ==
  /\ [][lastOp' \in {"stopRecording", "disconnect"} =>
          (~mediaRecorder' /\ turnEndTimer' = "null" /\ calls' = <<>>)]_vars
  /\ [][(lastOp' \in {"stopRecording", "disconnect"} /\ ~mediaRecorder /\ turnEndTimer = "null") =>
          UNCHANGED captureVars]_vars
  /\ [][stopCalls' = 2 => UNCHANGED captureVars]_vars
  /\ [][lastOp' = "stopRecording" => UNCHANGED <<clientVars, playVars, wire>>]_vars

\* C14 witness: the listening effect stopped a running recorder and disconnect
\* called stopRecording again right after it
C14_Witness ==
  /\ lastOp = "disconnect"
  /\ stopCalls = 2
  /\ flushing
  /\ ~mediaRecorder
  /\ turnEndTimer = "null"

\* C15: once stopRecording has returned and until startRecording is called
\* again (no recorder, no start under way), the turn-end timer is not armed
\* and no handler forwards an audio chunk or sends turn_end
C15_QuietAfterStop ==
  (~mediaRecorder /\ startPending = 0) =>
    /\ turnEndTimer # "armed"
    /\ \A i \in 1..Len(sent) : sent[i].frame \notin {"audio", "turn_end"}

\* C16: on every socket that is open the `init` handshake was the first frame
\* sent and was sent exactly once
C16_InitFirstAndOnce ==
  \A c \in Slots :
    readyState[c] = "OPEN" => (wire[c].first = "init" /\ wire[c].inits = 1)

\* this.ws is absent or its socket is not open
ChannelNotOpen == ws = 0 \/ readyState[ws] # "OPEN"

\* C17: sendAudio (a converted chunk), send(turn_end) and send(stop) made when
\* this.ws is absent or not open put nothing on the wire, invoke no callback and
\* change neither the connection, the queue nor the owner's state; nothing is
\* kept for later: a socket that is not open yet has no frame, and when one
\* opens the handshake is the only frame sent
C17_SendFailsSilently ==
  /\ [][(lastOp' \in {"bufferReady", "turnEnd"} /\ ChannelNotOpen) =>
          /\ sent' = <<>> /\ calls' = <<>>
          /\ UNCHANGED <<wire, clientVars, playVars, uiVars>>]_vars
  /\ [][(lastOp' = "disconnect" /\ ChannelNotOpen) =>
          /\ sent' = <<>> /\ calls' = <<>>
          /\ \A c \in Slots : wire'[c] \in {wire[c], NoFrames}
          /\ UNCHANGED <<reconnectAttempts, reconnectTimers, uiVars>>]_vars
  /\ [](\A c \in Slots : readyState[c] \in {"NONE", "CONNECTING"} => wire[c] = NoFrames)
  /\ [][lastOp' = "onopen" => sent' \in {<<>>, <<[slot |-> ws, frame |-> "init"]>>}]_vars

\* C17 witness: a chunk captured while connected was converted after the
\* channel had dropped and while the reconnect was still connecting: nothing
\* was sent
C17_Witness ==
  /\ lastOp = "bufferReady"
  /\ ws # 0
  /\ readyState[ws] = "CONNECTING"
  /\ sent = <<>>
  /\ wire[ws] = NoFrames

\* C18: disconnect with this.ws open sends `stop` on it and then starts closing
\* it; a socket on which `stop` was sent is closing and no longer this.ws,
\* and no frame is ever sent on it after the `stop`
C18_StopIsTheLastFrame ==
  /\ [][(lastOp' = "disconnect" /\ ~ChannelNotOpen) =>
          /\ sent' = <<[slot |-> ws, frame |-> "stop"]>>
          /\ wire'[ws].stopped
          /\ readyState'[ws] = "CLOSING"]_vars
  /\ [](\A c \in Slots : wire[c].stopped => (readyState[c] = "CLOSING" /\ ws # c))
  /\ [](\A c \in Slots : ~wire[c].late)
  /\ [][\A i \in 1..Len(sent') : ~wire[sent'[i].slot].stopped]_vars

\* C18 witness: after disconnect sent `stop`, a chunk captured before it was
\* converted, and nothing was sent
C18_Witness ==
  /\ lastOp = "bufferReady"
  /\ sent = <<>>
  /\ \E c \in Slots : wire[c].stopped /\ wire[c].first = "init"

\* how many times the connection-closed notification occurs among the calls cs
Notified(cs) == Cardinality({i \in 1..Len(cs) : cs[i].cb = "onDisconnected"})

\* the sockets that close in this step
ClosedNow == {c \in Live : readyState'[c] \in {"CLOSED", "NONE"}}

\* C19: a socket closes only in its close handler, whatever made it close, and
\* that handler notifies the owner (onDisconnected) exactly once, after which
\* the owner holds itself disconnected; the notification is never raised in a
\* step in which no socket closes, and each step closes at most one socket
C19_EveryClosureNotifiesOnce ==
  /\ [][ClosedNow # {} =>
          /\ lastOp' = "onclose"
          /\ Cardinality(ClosedNow) = 1
          /\ Notified(calls') = 1
          /\ ~ui'.isConnected]_vars
  /\ [][Notified(calls') > 0 => ClosedNow # {}]_vars

\* C19 witness: the socket that disconnect() had started closing has closed,
\* cleanly, and the owner was notified
C19_Witness ==
  /\ lastOp = "onclose"
  /\ ws = 0
  /\ Live = {}
  /\ calls = <<[cb |-> "onDisconnected", arg |-> 0]>>
  /\ ~ui.isConnected

\* C20 as claimed: the handler of a transport error or closure never invokes
\* the callback that in-band `error` events use
C20_TransportErrorHasItsOwnSignal ==
  [][lastOp' = "onclose" => \A i \in 1..Len(calls') : calls'[i].cb # "onError"]_vars

\* C20 amended: a transport error is reported through the error callback of the
\* in-band `error` events, with the client's own text (arg 0) and not a text
\* of the backend, and the connection-closed notification follows at once; a
\* connection that fails before opening is always reported so; an in-band
\* `error` event invokes the error callback alone, with the backend's text
C20_TransportErrorSharesTheErrorCallback ==
  /\ [][lastOp' = "onclose" =>
          calls' \in {<<[cb |-> "onDisconnected", arg |-> 0]>>,
                      <<[cb |-> "onError", arg |-> 0], [cb |-> "onDisconnected", arg |-> 0]>>}]_vars
  /\ [][(\E c \in ClosedNow : readyState[c] = "CONNECTING") =>
          calls' = <<[cb |-> "onError", arg |-> 0], [cb |-> "onDisconnected", arg |-> 0]>>]_vars
  /\ [][lastOp' = "error" =>
          calls' \in {<<>>} \cup {<<[cb |-> "onError", arg |-> msg]>> : msg \in 1..NumMessages}]_vars

\* C20 witness: the first connection was refused: the error callback, then the
\* connection-closed notification
C20_Witness ==
  /\ lastOp = "onclose"
  /\ prevStatus = "connecting"
  /\ closures = 1
  /\ calls = <<[cb |-> "onError", arg |-> 0], [cb |-> "onDisconnected", arg |-> 0]>>

\* C21: a text frame that JSON.parse rejects ("malformed") and one whose tag
\* handleMessage has no case for ("pong") invoke no callback, send nothing and
\* leave the session state, session_id, the connection, the playback queue and
\* capture as they were, so that the frames that follow are handled as before
C21_MalformedAndUnknownDropped ==
  [][lastOp' \in {"malformed", "pong"} =>
       /\ calls' = <<>>
       /\ sent' = <<>>
       /\ UNCHANGED <<clientVars, captureVars, playVars, uiVars, wire>>]_vars

\* C21 witness: a malformed frame arrived while the backend was processing in
\* an initialized session
C21_Witness ==
  /\ lastOp = "malformed"
  /\ ui = [status |-> "processing", isConnected |-> TRUE]
  /\ sessionId = 2
  /\ calls = <<>>

\* C22: a `heartbeat` event received on an open socket sends exactly one `ping`
\* on that socket, invokes no callback and leaves the owner's state alone
C22_HeartbeatAnsweredOnItsChannel ==
  [][lastOp' = "heartbeat" =>
       \A c \in Slots :
         onmessage(c, [type |-> "heartbeat", arg |-> 0]) =>
           (sent' = <<[slot |-> c, frame |-> "ping"]>> /\ calls' = <<>> /\ ui' = ui)]_vars

\* C23: whenever no socket is open (the channel was closed by disconnect() or
\* by the remote end or a failure, and no new connection has opened, let alone
\* been greeted), the client holds no session_id
C23_NoSessionIdWithoutOpenChannel ==
  (\A c \in Slots : readyState[c] # "OPEN") => sessionId = 0

\* C24 as claimed: on one connection, a session_initialized that finds a
\* session id in place leaves it unchanged
C24_SessionIdSetOncePerConnection ==
  [][(lastOp' = "session_initialized" /\ sessionId # 0) => sessionId' = sessionId]_vars

\* C24 amended: every session_initialized, the first on its connection or a
\* later one, sets the session id to the id it carries, and to none when it
\* carries none
C24_EverySessionInitializedSetsTheId ==
  [][lastOp' = "session_initialized" =>
       \A c \in Slots, id \in 0..NumSessionIds :
         onmessage(c, [type |-> "session_initialized", arg |-> id]) =>
           (sessionId' = id /\ replaced' = sessionId)]_vars

\* C24 witness: the second session_initialized of the only connection replaced id 1 by id 2
C24_Witness ==
  /\ lastOp = "session_initialized"
  /\ replaced = 1
  /\ sessionId = 2
  /\ readyState = [c \in Slots |-> IF c = 1 THEN "OPEN" ELSE "NONE"]
  /\ closures = 0

\* what a text frame with tag t makes of the status 'error' (full: the field the
\* handler tests is present)
AfterError(t, full) ==
  CASE t \in {"agent_finished"} -> "idle"
    [] t = "session_initialized" /\ full -> "idle"
    [] t = "processing" /\ full -> "processing"
    [] t = "agent_speaking" /\ full -> "speaking"
    [] OTHER -> "error"

\* C25 as claimed: the state 'error' (a timeout is reported as 'error' too) is
\* kept by every inbound event, every listening toggle and every transport
\* notification; only connect() may end it
C25_ErrorIsTerminal ==
  [][ui.status = "error" => (ui'.status = "error" \/ lastOp' = "connect")]_vars

\* C25 amended: 'error' is not terminal.  It is kept by transcription,
\* interrupted, error, timeout, heartbeat, session_complete, unknown and
\* malformed frames, by frames lacking the field their handler tests, by a
\* listening toggle, by the socket opening, by disconnect() and by a start of
\* capture settling; it is replaced by 'idle' on agent_finished, on
\* session_initialized with an id and on every close of the socket, by
\* 'processing' on processing with a message, by 'speaking' on agent_speaking
\* with a text, and by 'listening' when the listening effect starts capture.
C25_ErrorIsLeftByLaterEvents ==
  [][ui.status = "error" =>
       /\ \A c \in Slots, m \in Messages :
            (lastOp' = m.type /\ onmessage(c, m)) => ui'.status = AfterError(m.type, m.arg # 0)
       /\ lastOp' = "onclose" => ui'.status = "idle"
       /\ lastOp' \in {"toggle", "onopen", "reconnect", "disconnect", "getUserMedia",
                       "stopRecording", "effect"} => ui'.status = "error"
       /\ lastOp' = "startRecording" =>
            ui'.status = IF calls' = <<>> THEN "listening" ELSE "error"]_vars

\* C25 witness: agent_finished arrived in the state 'error' and left 'idle'
C25_Witness ==
  /\ lastOp = "agent_finished"
  /\ prevStatus = "error"
  /\ ui.status = "idle"
  /\ ui.isConnected

\* the listening effect ran in this step
EffectRan == lastOp' \in {"startRecording", "stopRecording", "effect"}

\* C26 as claimed: the listening effect running with listening wanted while
\* the state is 'speaking' starts no capture, leaves the state 'speaking' and
\* reports no error
C26_NoStartWhileSpeaking ==
  [][(EffectRan /\ ui.status = "speaking" /\ isListening) =>
       (startPending' = startPending /\ ui'.status = "speaking" /\ calls' = <<>>)]_vars

\* C26 amended: the listening effect running while the owner is connected,
\* listening is wanted and capture has not been started starts capture in
\* every state, 'speaking' included: the state becomes 'listening' and
\* startRecording is called (where the browser has no mediaDevices it fails at
\* once: the state becomes 'error' and the error callback is invoked)
C26_StartWhateverTheState ==
  [][(EffectRan /\ ui.isConnected /\ isListening /\ ~isActiveRef) =>
       /\ lastOp' = "startRecording"
       /\ \/ /\ calls' = <<>>
             /\ ui'.status = "listening"
             /\ isActiveRef'
             /\ startPending' = startPending + 1
          \/ /\ calls' = captureFailedCalls
             /\ ui'.status = "error"
             /\ ~isActiveRef'
             /\ startPending' = startPending]_vars

\* C26 witness: listening was toggled on while the agent spoke, and capture started
C26_Witness ==
  /\ lastOp = "startRecording"
  /\ prevStatus = "speaking"
  /\ ui.status = "listening"
  /\ isActiveRef
  /\ startPending = 1

\* C27: at most one capture pipeline holds the microphone (one stream, one
\* recorder), and startRecording called while a recorder is running is a
\* no-op: where the browser offers the microphone, it does not ask for it again
C27_OneCapturePipeline ==
  /\ [](recorders <= 1 /\ streams <= 1)
  /\ [][(lastOp' = "startRecording" /\ mediaRecorder /\ calls' = <<>>) =>
          startPending' = startPending]_vars

\* C28: an `interrupted` event received while the agent speaks leaves the
\* session state 'listening' if capture is running and 'idle' otherwise, never
\* 'speaking'
C28_InterruptedEndsSpeaking ==
  [][(lastOp' = "interrupted" /\ ui.status = "speaking") =>
       ui'.status = IF mediaRecorder THEN "listening" ELSE "idle"]_vars

\* the handlers of inbound frames: a text frame (its tag), a binary frame, and
\* the playback steps after which a suspended ws.onmessage resumes
FrameOps == {m.type : m \in Messages} \cup {"binary", "decoded", "onended"}

\* the place on the wire of the frame whose callback this step invoked: a
\* binary frame's arrival number, and for the frame received in this step the
\* next number to give
Delivered ==
  IF calls'[1].cb = "onAudioReceived" /\ lastOp' # "binary" THEN calls'[1].arg ELSE nextChunk

\* C29: callbacks are invoked in wire order: when the callback of an inbound
\* frame is invoked, no earlier binary frame still waits for its onAudioReceived
C29_DeliveredInWireOrder ==
  [][(lastOp' \in FrameOps /\ calls' # <<>>) =>
       \A a \in awaiting' : a.first > Delivered]_vars

\* C30: audio chunks go on the wire in the order the recorder produced them: a
\* chunk put on the wire is never one that a newer chunk has overtaken
C30_SentInProductionOrder ==
  [][(lastOp' = "bufferReady" /\ sent' # <<>>) => overtaken' >= overtaken]_vars

\* C31: the `init` handshake a socket sends when it opens carries the identity
\* passed to the connect() call at the origin of that socket: its own call for
\* a socket connect() created, and for a socket an automatic reconnect created
\* the identity of the socket whose close scheduled the reconnect
C31_HandshakeCarriesTheCallersIdentity ==
  /\ [][lastOp' = "onopen" =>
          \A c \in Slots : onopen(c) => handshake' \in {0, identity[c]}]_vars
  /\ [][lastOp' = "onclose" =>
          \A c \in Slots, err \in BOOLEAN, id \in Identities :
            (onclose(c, err) /\ timerIdentity'[id] > timerIdentity[id]) => id = identity[c]]_vars
  /\ [][lastOp' = "reconnect" =>
          \A id \in Identities :
            ReconnectTimerFires(id) => (identity'[ws'] = id /\ timerIdentity[id] > 0)]_vars
  /\ [][lastOp' \notin {"connect", "reconnect"} =>
          \A c \in Slots : (identity[c] # 0 /\ identity'[c] # 0) => identity'[c] = identity[c]]_vars

\* C31 witness: the socket an automatic reconnect has just created for
\* identity 2 opened and sent its handshake, while a socket of identity 1 is open
C31_Witness ==
  /\ lastOp = "onopen"
  /\ retried
  /\ handshake = 2
  /\ \E c \in Slots : identity[c] = 1 /\ readyState[c] = "OPEN"

\* C32 as claimed: a close that schedules a reconnect leaves the session state
\* 'connecting'
C32_ConnectingDuringRetry ==
  [][(lastOp' = "onclose" /\ reconnectTimers' > reconnectTimers) => ui'.status = "connecting"]_vars

\* C32 amended: every close of a socket, whether or not it schedules a
\* reconnect, leaves the session state 'idle' with the owner not connected; the
\* state is never 'connecting' while a reconnect is pending or has just begun
C32_IdleDuringRetry ==
  /\ [][lastOp' = "onclose" => (ui'.status = "idle" /\ ~ui'.isConnected)]_vars
  /\ []((reconnectTimers > 0 \/ lastOp = "reconnect") => ui.status # "connecting")

\* C32 witness: the socket closed while the agent spoke; a reconnect is pending
\* and the state is 'idle'
C32_Witness ==
  /\ lastOp = "onclose"
  /\ prevStatus = "speaking"
  /\ reconnectTimers = 1
  /\ Live = {}
  /\ ui = [status |-> "idle", isConnected |-> FALSE]

\* C33: stopRecording called while startRecording is suspended in getUserMedia
\* cancels the start: when the device is then granted, no recorder runs and no
\* stream is held
C33_StopCancelsAPendingStart ==
  [][(lastOp' = "getUserMedia" /\ ~isActiveRef /\ calls' = <<>>) =>
       (~mediaRecorder' /\ recorders' = 0 /\ streams' = 0)]_vars

C35_DisconnectSchedulesNoReconnect ==
  [][(lastOp' = "onclose" /\ \E c \in Slots : readyState[c] = "CLOSING" /\ readyState'[c] # "CLOSING") =>
       (reconnectTimers' = reconnectTimers /\ scheduled' = scheduled)]_vars

\* C36: a start of capture that fails (no mediaDevices, permission denied,
\* encoding not supported) leaves nothing acquired: no stream more than before
\* is open and no recorder was created
C36_FailedStartHoldsNothing ==
  [][(lastOp' \in {"getUserMedia", "startRecording"} /\ calls' = captureFailedCalls) =>
       (streams' = streams /\ recorders' = recorders /\ mediaRecorder' = mediaRecorder)]_vars

\* C37: the listening effect that runs right after a start of capture failed,
\* with the listening intent still on, starts nothing: the state stays 'error'
C37_NoRetryAfterFailedStart ==
  [][(lastOp \in {"getUserMedia", "startRecording"} /\ calls = captureFailedCalls
        /\ isListening /\ EffectRan) =>
       (ui'.status = "error" /\ startPending' = startPending /\ calls' = <<>>)]_vars

\* C38: isPlaying is true exactly when a playAudioQueue loop is active
\* (suspended on a chunk it is decoding or playing)
C38_IsPlayingIffLoopActive ==
  isPlaying <=> loops # {}

\* C39: the client never has more than one socket that is connecting or open
C39_OneChannelAtATime ==
  Cardinality({c \in Slots : readyState[c] \in {"CONNECTING", "OPEN"}}) <= 1

\* C40: when every decode settles and every started chunk ends, every chunk
\* received is eventually started, dropped or discarded, and eventually the
\* queue is empty with no loop active, for good once no more chunks arrive
C40_EveryChunkIsDisposedOf ==
  /\ \A c \in 1..MaxChunks :
       (c < nextChunk) ~> (c \in Range(started) \cup dropped \cup discarded)
  /\ []<>(audioQueue = <<>> /\ loops = {} /\ ~isPlaying)
  /\ <>[](nextChunk > MaxChunks => (audioQueue = <<>> /\ loops = {} /\ ~isPlaying))

\* C40 witness: all chunks have arrived, some were started, one was dropped,
\* one was discarded by clearAudioQueue, and playback has come to rest
C40_Witness ==
  /\ nextChunk > MaxChunks
  /\ started # <<>> /\ dropped # {} /\ discarded # {}
  /\ audioQueue = <<>> /\ loops = {} /\ ~isPlaying

====
